---- MODULE Spec2Model ----
(***************************************************************************)
(* The MOT test-result analysis pipeline of src/main.py and of its saved   *)
(* editor checkpoint src/.ipynb_checkpoints/main-checkpoint.py.            *)
(*                                                                         *)
(* Both files are straight-line scripts over one working table df.  The    *)
(* variable `variant` says which of the two scripts runs, `pc` names the    *)
(* statement that runs next.  One action models one statement (or one      *)
(* block of statements that the script runs back to back).                 *)
(*                                                                         *)
(* pandas behaviour the scripts rely on is modelled as pandas implements   *)
(* it: to_datetime(errors="raise"/"coerce"), comparison of a categorical   *)
(* column with a scalar, Series.apply on a categorical column              *)
(* (Categorical.map), Series.mean, sort_values (default quicksort, not     *)
(* stable, missing dates last), drop_duplicates and duplicated.            *)
(***************************************************************************)
EXTENDS Integers, Sequences, FiniteSets, TLC

VARIABLES
    variant,        \* "main" (src/main.py) or "checkpoint" (main-checkpoint.py)
    pc,             \* the statement that runs next, "done", or "raised"
    error,          \* the exception that ended the run, "none" while it runs
    raw,            \* the table as read_csv returned it (never written again)
    df,             \* the working table bound to the name df
    categories,     \* categories of df.test_result, fixed by astype("category")
    passed,         \* the column df["test_result_passed"], aligned with df
    passed_dtype,   \* its dtype: "absent", "int64", "float64" or "category"
    pass_rate_all,  \* value of the mean at main.py:42, <<>> until computed
    pass_rate_first,\* value of the mean at main.py:66 / checkpoint:71
    num_duplicate_vehicle_ids,
    num_duplicate_tests,
    df_duplicated_vehicle_ids, \* rows of that frame (its row order is not kept)
    df_duplicated_counts,      \* vehicle_id -> per column, its non-missing cells
    df_before_dedup,\* history: df as it was when the dedup statement started
    dedup_tmp,      \* history: the temporary frame the dedup statement built
    vehicle_age,    \* the column df["vehicle_age"] (checkpoint only)
    share           \* the value printed at checkpoint:92, <<>> until computed

vars == <<variant, pc, error, raw, df, categories, passed, passed_dtype,
          pass_rate_all, pass_rate_first, num_duplicate_vehicle_ids,
          num_duplicate_tests, df_duplicated_vehicle_ids, df_duplicated_counts,
          df_before_dedup, dedup_tmp, vehicle_age, share>>

----------------------------------------------------------------------------
(* Bounds and value domains of the inputs                                  *)

\* Largest number of rows read_csv returns (nrows in the scripts is 1000000).
MaxRows == 3

\* Vehicle identifiers that occur in the sample.
VehicleIds == {1, 2}

\* Date texts of the sample; a parsed date is the position of its text here,
\* so later texts are later dates.
DateText == <<"2022-03-01", "2022-03-15">>

\* An empty CSV field; read_csv reads it as a missing value.
Empty == ""

\* A field that is no date.
NotADate == "not a date"

\* pandas' missing timestamp (main.py:17, "missing data stored as NaT").
NaT == 0

\* A missing value in a numeric column (float nan).
NaN == -1

\* Result codes in the sample: pass, fail, pass with rectification.
ResultCodes == {"P", "F", "PRS"}

Dates == 1..Len(DateText)

----------------------------------------------------------------------------
(* Input tables                                                            *)

\* Normal-test, class-4 rows with well-formed fields.
RegularRows ==
    [vehicle_id : VehicleIds,
     test_date : {DateText[i] : i \in Dates},
     first_use_date : {DateText[1]},
     test_type : {"NT"},
     test_result : ResultCodes,
     test_class_id : {4}]

BaseRow ==
    [vehicle_id |-> 1, test_date |-> DateText[1], first_use_date |-> DateText[1],
     test_type |-> "NT", test_result |-> "P", test_class_id |-> 4]

\* Rows that differ from BaseRow in one field: a re-test, another vehicle
\* class, an unparsable test_date, an unparsable or empty first_use_date, an
\* empty test_result.
IrregularRows ==
    { [BaseRow EXCEPT !.test_type = "RT"],
      [BaseRow EXCEPT !.test_class_id = 7],
      [BaseRow EXCEPT !.test_date = NotADate],
      [BaseRow EXCEPT !.first_use_date = NotADate],
      [BaseRow EXCEPT !.first_use_date = Empty],
      [BaseRow EXCEPT !.test_result = Empty] }

InputRows == RegularRows \cup IrregularRows

\* test_id is unique in the source data: the row's position in the file.
WithTestIds(f) ==
    [i \in DOMAIN f |->
        [test_id |-> i,
         vehicle_id |-> f[i].vehicle_id,
         test_date |-> f[i].test_date,
         first_use_date |-> f[i].first_use_date,
         test_type |-> f[i].test_type,
         test_result |-> f[i].test_result,
         test_class_id |-> f[i].test_class_id]]

InputTables == UNION { [1..n -> InputRows] : n \in 0..MaxRows }

----------------------------------------------------------------------------
(* pandas operations the scripts call                                      *)

IsDateText(s) == \E i \in Dates : DateText[i] = s

\* pd.to_datetime on one value that it accepts: a date text becomes its
\* timestamp, a missing value or (under errors="coerce") a text that is no
\* date becomes NaT.
ParseDate(s) ==
    IF IsDateText(s) THEN CHOOSE i \in Dates : DateText[i] = s ELSE NaT

\* to_datetime as it would behave were errors="coerce" not honoured: any text
\* that is no date raises.
ToDatetimeRaisesStrict(col, errors) ==
    \E i \in DOMAIN col : col[i] # Empty /\ ~IsDateText(col[i])

\* pd.to_datetime(col, errors=...) raises iff errors="raise" (the default) and
\* some value is a text that is no date.
ToDatetimeRaises(col, errors) ==
    errors = "raise" /\ \E i \in DOMAIN col : col[i] # Empty /\ ~IsDateText(col[i])

Column(t, name) ==
    [i \in DOMAIN t |->
        CASE name = "test_date" -> t[i].test_date
          [] name = "first_use_date" -> t[i].first_use_date
          [] name = "vehicle_id" -> t[i].vehicle_id
          [] name = "test_id" -> t[i].test_id
          [] name = "test_result" -> t[i].test_result]

\* Lines 16-17: the two date columns replaced by their parsed values.
NormaliseDates(t) ==
    [i \in DOMAIN t |->
        [t[i] EXCEPT !.test_date = ParseDate(t[i].test_date),
                     !.first_use_date = ParseDate(t[i].first_use_date)]]

\* astype("category"): the categories are the distinct non-missing values.
Categories(col) == {col[i] : i \in DOMAIN col} \ {Empty}

\* df[df.test_type == code]: boolean-mask selection keeps row order.
FilterTestType(t, code) == SelectSeq(t, LAMBDA r : r.test_type = code)

FilterTestClass(t, code) == SelectSeq(t, LAMBDA r : r.test_class_id = code)

\* Series.nunique(): number of distinct values.
NUnique(col) == Cardinality({col[i] : i \in DOMAIN col})

\* Series.duplicated(keep=False) at position i.
DuplicatedKeepFalse(col, i) == \E j \in DOMAIN col : j # i /\ col[j] = col[i]

\* duplicated as it would behave were only the second occurrence of a value
\* marked: the value occurred exactly once before.
DuplicatedSeenOnce(col, i) ==
    Cardinality({j \in 1..(i - 1) : col[j] = col[i]}) = 1

\* Series.duplicated(keep="first") at position i: the value occurred before.
DuplicatedKeepFirst(col, i) == \E j \in 1..(i - 1) : col[j] = col[i]

\* DataFrame.drop_duplicates(subset="vehicle_id", keep="first").
DropDuplicates(t) ==
    LET col == Column(t, "vehicle_id")
        kept[i \in 0..Len(t)] ==
            IF i = 0 THEN <<>>
            ELSE IF DuplicatedKeepFirst(col, i) THEN kept[i - 1]
                 ELSE Append(kept[i - 1], t[i])
    IN kept[Len(t)]

\* Order of sort_values(by="test_date"): ascending, missing dates last.
DateLeq(a, b) == b = NaT \/ (a # NaT /\ a <= b)

RowOrders(n) ==
    {p \in [1..n -> 1..n] : \A i, j \in 1..n : p[i] = p[j] => i = j}

\* DataFrame.sort_values(by="test_date") with the default kind="quicksort",
\* which is not stable: every arrangement of the rows in ascending date order
\* is a possible result (rows with equal dates may come out in any order).
SortValuesOutcomes(t) ==
    {[i \in 1..Len(t) |-> t[p[i]]] : p \in
        {q \in RowOrders(Len(t)) :
            \A i \in 1..(Len(t) - 1) :
                DateLeq(t[q[i]].test_date, t[q[i + 1]].test_date)}}

\* The temporary frames the expression
\*   df.sort_values(by="test_date").drop_duplicates(subset="vehicle_id", keep="first", ...)
\* can produce from the table t.
DedupFrames(t) == {DropDuplicates(s) : s \in SortValuesOutcomes(t)}

\* The binding as it would be were the rows dropped from df itself.
DedupBindingInPlace(t, tmp) == tmp

\* What the name df is bound to after the dedup statement on table t, tmp
\* being the deduplicated temporary: inplace=True drops the rows from the
\* sorted copy that sort_values returned, and df itself is never assigned.
DedupBinding(t, tmp) == t

\* df[df.vehicle_id.duplicated(keep=False)].groupby("vehicle_id").count():
\* for every vehicle that occurs more than once, the number of non-missing
\* cells of its rows in each other column.  p is the test_result_passed
\* column, a column of the frame when dtype says that it exists (main.py).
GroupByCount(t, p, dtype) ==
    LET dup == {j \in DOMAIN t : DuplicatedKeepFalse(Column(t, "vehicle_id"), j)}
        group(v) == {j \in dup : t[j].vehicle_id = v}
        counts(g) ==
            [test_id |-> Cardinality(g),
             test_date |-> Cardinality({j \in g : t[j].test_date # NaT}),
             first_use_date |-> Cardinality({j \in g : t[j].first_use_date # NaT}),
             test_type |-> Cardinality({j \in g : t[j].test_type # Empty}),
             test_result |-> Cardinality({j \in g : t[j].test_result # Empty}),
             test_class_id |-> Cardinality(g)]
    IN [v \in {t[j].vehicle_id : j \in dup} |->
           IF dtype = "absent" THEN counts(group(v))
           ELSE [test_result_passed |->
                    Cardinality({j \in group(v) : p[j] # NaN})] @@ counts(group(v))]

\* lambda result_code: 1 if result_code == "P" else 0
PassedLambda(result_code) == IF result_code = "P" THEN 1 ELSE 0

\* Categorical.map: whether the function is one-to-one on the categories.
OneToOne(cats) ==
    \A a, b \in cats : PassedLambda(a) = PassedLambda(b) => a = b

\* df.test_result.apply(lambda ...) on the categorical column: the lambda is
\* applied to the categories, missing values stay missing.
ApplyPassed(t) ==
    [i \in DOMAIN t |->
        IF t[i].test_result = Empty THEN NaN ELSE PassedLambda(t[i].test_result)]

\* dtype of the result: an empty Series keeps the dtype of the input
\* (category); a one-to-one mapping of the categories gives a Categorical;
\* otherwise the values are numbers.
ApplyPassedDtype(t, cats) ==
    IF Len(t) = 0 \/ OneToOne(cats) THEN "category"
    ELSE IF \E i \in DOMAIN t : t[i].test_result = Empty THEN "float64"
    ELSE "int64"

RECURSIVE SumSeq(_)
SumSeq(s) == IF s = <<>> THEN 0 ELSE Head(s) + SumSeq(Tail(s))

\* Series.mean() of a numeric column, missing values skipped: <<sum, count>>
\* stands for sum/count, and <<0, 0>> for nan (no value to average).
Mean(col) ==
    LET present == SelectSeq(col, LAMBDA x : x # NaN)
    IN <<SumSeq(present), Len(present)>>

\* Series.mean() raises TypeError on a categorical column.
MeanRaises(dtype) == dtype = "category"

\* df["test_date"] - df["first_use_date"]: <<d>> is a duration of d, <<>> the
\* missing duration, which results when either date is missing.
VehicleAge(t) ==
    [i \in DOMAIN t |->
        IF t[i].test_date = NaT \/ t[i].first_use_date = NaT THEN <<>>
        ELSE <<t[i].test_date - t[i].first_use_date>>]

----------------------------------------------------------------------------
(* The scripts                                                             *)

\* The statements of each script, in the order they run.
Script(v) ==
    IF v = "main"
    THEN <<"normalise", "filter_type", "derive", "mean_all",
           "check_duplicates", "dedup", "mean_first", "done">>
    ELSE <<"normalise", "filter_type", "filter_class", "check_duplicates",
           "dedup", "derive", "mean_first", "features", "summary", "done">>

Position(v, p) == CHOOSE i \in DOMAIN Script(v) : Script(v)[i] = p

\* The statement that follows statement p in the script.
NextPc(v, p) == Script(v)[Position(v, p) + 1]

Init ==
    /\ variant \in {"main", "checkpoint"}
    /\ raw \in {WithTestIds(f) : f \in InputTables}
    /\ df = raw
    /\ pc = "normalise"
    /\ error = "none"
    /\ categories = {}
    /\ passed = <<>>
    /\ passed_dtype = "absent"
    /\ pass_rate_all = <<>>
    /\ pass_rate_first = <<>>
    /\ num_duplicate_vehicle_ids = 0
    /\ num_duplicate_tests = 0
    /\ df_duplicated_vehicle_ids = {}
    /\ df_duplicated_counts = <<>>
    /\ df_before_dedup = <<>>
    /\ dedup_tmp = <<>>
    /\ vehicle_age = <<>>
    /\ share = <<>>

\* main.py:15-25, checkpoint:29-39: parse the date columns, make the
\* categorical columns categorical, describe.
Normalise ==
    /\ pc = "normalise"
    /\ IF \/ ToDatetimeRaises(Column(df, "test_date"), "raise")
          \/ ToDatetimeRaises(Column(df, "first_use_date"), "coerce")
       THEN /\ pc' = "raised"
            /\ error' = "DateParseError"
            /\ UNCHANGED <<df, categories>>
       ELSE /\ df' = NormaliseDates(df)
            /\ categories' = Categories(Column(df, "test_result"))
            /\ pc' = NextPc(variant, pc)
            /\ UNCHANGED error
    /\ UNCHANGED <<variant, raw, passed, passed_dtype, pass_rate_all,
                   pass_rate_first, num_duplicate_vehicle_ids,
                   num_duplicate_tests, df_duplicated_vehicle_ids,
                   df_duplicated_counts, df_before_dedup, dedup_tmp, vehicle_age,
                   share>>

\* main.py:32, checkpoint:42: df = df[df.test_type == "NT"]
FilterType ==
    /\ pc = "filter_type"
    /\ df' = FilterTestType(df, "NT")
    /\ pc' = NextPc(variant, pc)
    /\ UNCHANGED <<variant, error, raw, categories, passed, passed_dtype,
                   pass_rate_all, pass_rate_first, num_duplicate_vehicle_ids,
                   num_duplicate_tests, df_duplicated_vehicle_ids,
                   df_duplicated_counts, df_before_dedup, dedup_tmp, vehicle_age,
                   share>>

\* checkpoint:45: df = df[df.test_class_id == 4]   (main.py has no such line)
FilterClass ==
    /\ pc = "filter_class"
    /\ df' = FilterTestClass(df, 4)
    /\ pc' = NextPc(variant, pc)
    /\ UNCHANGED <<variant, error, raw, categories, passed, passed_dtype,
                   pass_rate_all, pass_rate_first, num_duplicate_vehicle_ids,
                   num_duplicate_tests, df_duplicated_vehicle_ids,
                   df_duplicated_counts, df_before_dedup, dedup_tmp, vehicle_age,
                   share>>

\* main.py:40, checkpoint:69: df["test_result_passed"] = df.test_result.apply(...)
DerivePassed ==
    /\ pc = "derive"
    /\ passed' = ApplyPassed(df)
    /\ passed_dtype' = ApplyPassedDtype(df, categories)
    /\ pc' = NextPc(variant, pc)
    /\ UNCHANGED <<variant, error, raw, df, categories, pass_rate_all,
                   pass_rate_first, num_duplicate_vehicle_ids,
                   num_duplicate_tests, df_duplicated_vehicle_ids,
                   df_duplicated_counts, df_before_dedup, dedup_tmp, vehicle_age,
                   share>>

\* main.py:42: df.test_result_passed.mean()
MeanAll ==
    /\ pc = "mean_all"
    /\ IF MeanRaises(passed_dtype)
       THEN pc' = "raised" /\ error' = "TypeError" /\ UNCHANGED pass_rate_all
       ELSE /\ pass_rate_all' = Mean(passed)
            /\ pc' = NextPc(variant, pc)
            /\ UNCHANGED error
    /\ UNCHANGED <<variant, raw, df, categories, passed, passed_dtype,
                   pass_rate_first, num_duplicate_vehicle_ids,
                   num_duplicate_tests, df_duplicated_vehicle_ids,
                   df_duplicated_counts, df_before_dedup, dedup_tmp, vehicle_age,
                   share>>

\* main.py:44-56, checkpoint:48-58: the duplicate counts and the frames that
\* hold the rows of the vehicles that occur more than once.
CheckDuplicates ==
    /\ pc = "check_duplicates"
    /\ num_duplicate_vehicle_ids' = Len(df) - NUnique(Column(df, "vehicle_id"))
    /\ num_duplicate_tests' = Len(df) - NUnique(Column(df, "test_id"))
    /\ df_duplicated_vehicle_ids' =
           {df[i] : i \in {j \in DOMAIN df :
                              DuplicatedKeepFalse(Column(df, "vehicle_id"), j)}}
    /\ df_duplicated_counts' = GroupByCount(df, passed, passed_dtype)
    /\ pc' = NextPc(variant, pc)
    /\ UNCHANGED <<variant, error, raw, df, categories, passed, passed_dtype,
                   pass_rate_all, pass_rate_first, df_before_dedup, dedup_tmp,
                   vehicle_age, share>>

\* main.py:60, checkpoint:64:
\*   df.sort_values(by="test_date").drop_duplicates(subset="vehicle_id",
\*                                                  keep="first", inplace=True)
Dedup ==
    /\ pc = "dedup"
    /\ \E tmp \in DedupFrames(df) :
          /\ dedup_tmp' = tmp
          /\ df' = DedupBinding(df, tmp)
    /\ df_before_dedup' = df
    /\ pc' = NextPc(variant, pc)
    /\ UNCHANGED <<variant, error, raw, categories, passed, passed_dtype,
                   pass_rate_all, pass_rate_first, num_duplicate_vehicle_ids,
                   num_duplicate_tests, df_duplicated_vehicle_ids,
                   df_duplicated_counts, vehicle_age, share>>

\* main.py:66, checkpoint:71: df.test_result_passed.mean()
MeanFirst ==
    /\ pc = "mean_first"
    /\ IF MeanRaises(passed_dtype)
       THEN pc' = "raised" /\ error' = "TypeError" /\ UNCHANGED pass_rate_first
       ELSE /\ pass_rate_first' = Mean(passed)
            /\ pc' = NextPc(variant, pc)
            /\ UNCHANGED error
    /\ UNCHANGED <<variant, raw, df, categories, passed, passed_dtype,
                   pass_rate_all, num_duplicate_vehicle_ids,
                   num_duplicate_tests, df_duplicated_vehicle_ids,
                   df_duplicated_counts, df_before_dedup, dedup_tmp, vehicle_age,
                   share>>

\* checkpoint:74-77: the vehicle_age and make_model columns.  make and model
\* are columns the model does not carry; the concatenation of their texts
\* raises for no table.
Features ==
    /\ pc = "features"
    /\ vehicle_age' = VehicleAge(df)
    /\ pc' = NextPc(variant, pc)
    /\ UNCHANGED <<variant, error, raw, df, categories, passed, passed_dtype,
                   pass_rate_all, pass_rate_first, num_duplicate_vehicle_ids,
                   num_duplicate_tests, df_duplicated_vehicle_ids,
                   df_duplicated_counts, df_before_dedup, dedup_tmp, share>>

\* checkpoint:80-92: the frequency tables and
\*   print(df_make_model_freq.iloc[:100].values.sum()/len(df))
\* A table of fewer than 100 rows has fewer than 100 make_model values, so the
\* first 100 counts add up to len(df); numpy's 0/0 is nan, not an exception.
Summary ==
    /\ pc = "summary"
    /\ share' = <<Len(df), Len(df)>>
    /\ pc' = NextPc(variant, pc)
    /\ UNCHANGED <<variant, error, raw, df, categories, passed, passed_dtype,
                   pass_rate_all, pass_rate_first, num_duplicate_vehicle_ids,
                   num_duplicate_tests, df_duplicated_vehicle_ids,
                   df_duplicated_counts, df_before_dedup, dedup_tmp, vehicle_age>>

Next ==
    \/ Normalise
    \/ FilterType
    \/ FilterClass
    \/ DerivePassed
    \/ MeanAll
    \/ CheckDuplicates
    \/ Dedup
    \/ MeanFirst
    \/ Features
    \/ Summary

Spec == Init /\ [][Next]_vars

----------------------------------------------------------------------------
(* Properties                                                              *)

\* Statement stmt of the running script has run and the run goes on.
Ran(stmt) ==
    /\ \E i \in DOMAIN Script(variant) : Script(variant)[i] = stmt
    /\ \E i \in DOMAIN Script(variant) : Script(variant)[i] = pc
    /\ Position(variant, pc) > Position(variant, stmt)

\* The filter stage is over: the last filter statement of the script has run.
FilterStageRan ==
    IF variant = "main" THEN Ran("filter_type") ELSE Ran("filter_class")

RowSet(t) == {t[i] : i \in DOMAIN t}

TestIds(t) == [i \in DOMAIN t |-> t[i].test_id]

\* The rows of vehicle v in table t.
RowsOf(t, v) == {r \in RowSet(t) : r.vehicle_id = v}

\* The rows of vehicle v in t that carry the vehicle's earliest test_date.
EarliestOf(t, v) ==
    {r \in RowsOf(t, v) : \A q \in RowsOf(t, v) : DateLeq(r.test_date, q.test_date)}

\* C1: after the dedup statement has run, no two rows of the working table
\* carry the same vehicle_id.
UniqueVehicleIdsAfterDedup ==
    Ran("dedup") =>
        \A i, j \in DOMAIN df : i # j => df[i].vehicle_id # df[j].vehicle_id

\* C2: after the dedup statement has run, the working table holds, for every
\* vehicle of the filtered table, a row with the vehicle's earliest test_date
\* and no row of that vehicle with a strictly later test_date.
EarliestRowKeptAfterDedup ==
    Ran("dedup") =>
        \A v \in {r.vehicle_id : r \in RowSet(df_before_dedup)} :
            /\ RowsOf(df, v) \cap EarliestOf(df_before_dedup, v) # {}
            /\ RowsOf(df, v) \subseteq EarliestOf(df_before_dedup, v)

\* C3: count law of the dedup stage: the rows left after dedup plus the
\* reported num_duplicate_vehicle_ids are the rows before dedup, and every
\* discarded row is in df_duplicated_vehicle_ids.
DedupCountLaw ==
    Ran("dedup") =>
        /\ Len(df) + num_duplicate_vehicle_ids = Len(df_before_dedup)
        /\ RowSet(df_before_dedup) \ RowSet(df) \subseteq df_duplicated_vehicle_ids

\* C4: after the filter stage the working table holds exactly the loaded rows
\* with test_type "NT" and test_class_id 4, in their original order.
FilterKeepsExactlyNTClass4 ==
    FilterStageRan =>
        TestIds(df) =
            TestIds(SelectSeq(raw, LAMBDA r :
                        r.test_type = "NT" /\ r.test_class_id = 4))

\* C5: applying the dedup operation to the temporary frame that the dedup
\* statement produced yields the same set of rows, whatever order the sort
\* gives rows of equal date: a second application removes nothing.
DedupIdempotent ==
    Ran("dedup") =>
        \A again \in DedupFrames(dedup_tmp) :
            /\ RowSet(again) = RowSet(dedup_tmp)
            /\ Len(again) = Len(dedup_tmp)

\* C5 witness: the dedup statement has run on a full table of one vehicle, its
\* temporary frame is shorter than the table, and a second application to
\* that frame returns its rows.
DedupIdempotentWitness ==
    /\ Ran("dedup")
    /\ Len(df_before_dedup) = MaxRows
    /\ Len(dedup_tmp) = 1
    /\ \E again \in DedupFrames(dedup_tmp) : RowSet(again) = RowSet(dedup_tmp)

\* C6: after the dedup statement has run, of the rows of one vehicle exactly
\* one is left, a row with the earliest test_date, and among several such
\* rows the one that comes first in the original row order.
StableTieBreakAfterDedup ==
    Ran("dedup") =>
        \A v \in {r.vehicle_id : r \in RowSet(df_before_dedup)} :
            /\ Cardinality(RowsOf(df, v)) = 1
            /\ \A r \in RowsOf(df, v) :
                  /\ r \in EarliestOf(df_before_dedup, v)
                  /\ \A q \in EarliestOf(df_before_dedup, v) :
                        r.test_id <= q.test_id

\* The normalisation stage left row i of the loaded table in place, with its
\* date columns parsed: a date text became its timestamp, anything else NaT.
NormalisedRow(i) ==
    /\ df[i].test_id = raw[i].test_id
    /\ df[i].vehicle_id = raw[i].vehicle_id
    /\ df[i].test_type = raw[i].test_type
    /\ df[i].test_result = raw[i].test_result
    /\ df[i].test_class_id = raw[i].test_class_id
    /\ IF IsDateText(raw[i].test_date)
       THEN df[i].test_date \in Dates /\ DateText[df[i].test_date] = raw[i].test_date
       ELSE df[i].test_date = NaT
    /\ IF IsDateText(raw[i].first_use_date)
       THEN /\ df[i].first_use_date \in Dates
            /\ DateText[df[i].first_use_date] = raw[i].first_use_date
       ELSE df[i].first_use_date = NaT

\* C7 as stated: the normalisation stage never raises, whatever the two date
\* columns hold, and leaves the rows of the table in place.
NormaliseTotalOnBothDateColumns ==
    /\ error # "DateParseError"
    /\ pc = "filter_type" =>
          Len(df) = Len(raw) /\ \A i \in DOMAIN raw : NormalisedRow(i)

\* C7 amended: the stage raises exactly when some test_date is a text that is
\* no date, and then the table is as loaded; otherwise it completes, every
\* first_use_date that is no date is NaT, and the rows are in place.
NormaliseTotalOnFirstUseDate ==
    /\ error = "DateParseError" <=>
          (pc # "normalise" /\ \E i \in DOMAIN raw : raw[i].test_date = NotADate)
    /\ error = "DateParseError" => pc = "raised" /\ df = raw
    /\ pc = "filter_type" =>
          Len(df) = Len(raw) /\ \A i \in DOMAIN raw : NormalisedRow(i)

\* C7 witness: the stage has completed on a table that holds a first_use_date
\* that is no date, which is now NaT.
NormaliseWitness ==
    /\ pc = "filter_type"
    /\ Len(raw) = MaxRows
    /\ \E i \in DOMAIN raw :
          raw[i].first_use_date = NotADate /\ df[i].first_use_date = NaT

\* C8: test_result_passed is 1 for the code "P" and 0 for every other value,
\* a missing one included, for every row of the working table; the pass rate
\* of a table with rows is reported (the mean does not raise) and lies
\* between 0 and 1.
PassedIsOneIffP ==
    /\ passed_dtype # "absent" =>
          /\ Len(passed) = Len(df)
          /\ \A i \in DOMAIN df :
                passed[i] = IF df[i].test_result = "P" THEN 1 ELSE 0
    /\ \A rate \in {pass_rate_all, pass_rate_first} :
          rate # <<>> /\ Len(df) > 0 =>
              rate[2] > 0 /\ 0 <= rate[1] /\ rate[1] <= rate[2]
    /\ Len(df) > 0 => error # "TypeError"

\* No loaded row has test_type "NT" and test_class_id 4.
NoRowMatchesFilter ==
    \A i \in DOMAIN raw : ~(raw[i].test_type = "NT" /\ raw[i].test_class_id = 4)

\* C9: when the loaded table has rows, none matches the filter and the filter
\* stage has left an empty table, no later stage raises.
EmptyResultNeverRaises ==
    Len(raw) > 0 /\ NoRowMatchesFilter /\ df = <<>> => error # "TypeError"

\* C10: the dedup statement leaves df with the rows, in the order, it had
\* before the statement, so main.py's two pass rates are equal.
DedupLeavesDfUnchanged ==
    /\ Ran("dedup") => df = df_before_dedup
    /\ variant = "main" /\ pc = "done" => pass_rate_first = pass_rate_all

\* C10 witness: main.py has finished on a filtered table that holds a
\* vehicle several times, so that every frame the dedup expression could
\* produce is shorter than df.
DedupLeavesDfUnchangedWitness ==
    /\ variant = "main"
    /\ pc = "done"
    /\ num_duplicate_vehicle_ids > 0
    /\ \A tmp \in DedupFrames(df_before_dedup) : Len(tmp) < Len(df)
    /\ pass_rate_all # <<>>
    /\ pass_rate_all[1] > 0

====
